---- MODULE Spec2Model ----
(***************************************************************************)
(* Model of the coastermelt debugger shell (backdoor/shell_magics.py): the *)
(* memory, overlay, patch, hook and watch commands, the device they drive  *)
(* and the target that keeps running while the operator works.             *)
(*                                                                         *)
(* A command is started by one action, which parses its arguments and lays *)
(* out the device calls its body makes, in program order (todo).  Each     *)
(* call is then one step: the device performs it (DeviceStep) or the       *)
(* transport fails on it (TransportFail) and the exception ends the        *)
(* command.  Between any two calls the target may run (TargetFetch,        *)
(* TargetWrite).                                                           *)
(***************************************************************************)
EXTENDS Integers, Sequences, FiniteSets, TLC

VARIABLES
    dev,        \* the device: [ovl, ovlram, ram]
    cmd,        \* the command being run, or run last ("none" at start)
    arg,        \* its parsed arguments: [address, word, src, count]
    todo,       \* device calls the command has still to make, in order
    ops,        \* device calls the command has issued so far, in order
    err,        \* the exception that ended the command, or "none"
    tmp,        \* the word fetched by the read half of a read-modify-write
    pre,        \* the device as it was when the command started
    seen,       \* what the target last fetched from the patched range
    out,        \* what the command has printed or yielded
    snapshot,   \* watch_scanner: last value read for each watched address
    cycle,      \* watch_scanner: number of completed scan cycles
    scan,       \* the values the device returned in the running scan cycle
    last,       \* the values the device returned in the cycle before it
    r0,         \* the module's r0: None, or the r0 the last %ea returned
    r1,         \* the module's r1: None, or the r1 the last %ea returned
    includes,   \* the definition table: the set of <<key, body>> it holds
    orig        \* in orr, and in a bic that follows an orr: the device as it
                \* was when that orr started, and that orr's arguments

vars == <<dev, cmd, arg, todo, ops, err, tmp, pre, seen, out, snapshot, cycle, scan, last,
          r0, r1, includes, orig>>

\* The program's side of the state: everything but the device
host == <<cmd, arg, todo, ops, err, tmp, pre, out, snapshot, cycle, scan, last,
          r0, r1, includes>>

-----------------------------------------------------------------------------
(* Bounds of the model *)

\* Longest word list given to a command, and size of the overlay RAM in words
MaxWords == 2

\* %ea is run while r0 is below this value
MaxReg == 2

\* The scan cycles of a watch are counted up to this number
MaxCycles == 2

(* Program constants *)

\* wrf / asmf: def wrf(self, line, cell='', va=0x500000)
va == 5242880

\* ovl docstring: "It can go anywhere in the first 8MB."
OverlayLimit == 8388608

\* wrf docstring: the flash address patched in the example, "wrf c9740 55555555"
FlashBase == 825152

\* the scratch pad (shell_functions.pad), base of the RAM used for injected code
pad == 33551872

\* ec / ea / hook: address=pad+0x100, default=pad+0x100
HandlerOffset == 256

\* watch scenario of the specification: the watched address 0x2000
WatchBase == 8192

\* sc: "Send a low-level SCSI command with a 12-byte CDB"
CdbLen == 12

\* sc_read: scsi_in(d, cdb, args.length * 2048)
BlockSize == 2048

-----------------------------------------------------------------------------
(* The address space of the target, scaled down to the regions the commands *)
(* touch: read-only flash, RAM (scratch pad and data), and the overlay RAM  *)
(* window that appears wherever the overlay is mapped.                      *)

FlashWords == MaxWords + 1
FlashAddrs == FlashBase .. (FlashBase + 4 * FlashWords - 1)
HandlerAddrs == (pad + HandlerOffset) .. (pad + HandlerOffset + 4 * MaxWords - 1)
DataAddrs == WatchBase .. (WatchBase + 4 * MaxWords - 1)
RamAddrs == HandlerAddrs \cup DataAddrs
OvlBytes == 4 * MaxWords

Byte == 0 .. 255

\* Contents of flash: fixed for the whole session.  (All data of the model has
\* bytes below 128, which keeps every word within the integers TLC computes.)
FlashByte(a) == (a * 37 + 11) % 128

\* struct '<I': a 32-bit word as its four bytes, least significant first
WordBytes(w) ==
    << w % 256, (w \div 256) % 256, (w \div 65536) % 256, (w \div 16777216) % 256 >>

BytesWord(b) == b[1] + 256 * b[2] + 65536 * b[3] + 16777216 * b[4]

RECURSIVE Flatten(_)
Flatten(ss) == IF ss = <<>> THEN <<>> ELSE Head(ss) \o Flatten(Tail(ss))

\* The bytes of a word list, as they lie in memory
WordsBytes(ws) == Flatten([i \in 1 .. Len(ws) |-> WordBytes(ws[i])])

\* words_from_string: the words of a byte string (a multiple of 4 bytes long)
words_from_string(data) ==
    [i \in 1 .. (Len(data) \div 4) |-> BytesWord(SubSeq(data, 4 * i - 3, 4 * i))]

\* The overlay mapping covers byte address a
InOverlay(D, a) ==
    /\ D.ovl[2] > 0
    /\ a >= D.ovl[1]
    /\ a < D.ovl[1] + 4 * D.ovl[2]

\* What lies under the overlay at a: flash, RAM, or nothing (reads as 0)
Underlying(D, a) ==
    IF a \in FlashAddrs THEN FlashByte(a)
    ELSE IF a \in RamAddrs THEN D.ram[a]
    ELSE 0

\* The byte the bus returns at a: the overlay RAM where it is mapped
ReadByte(D, a) ==
    IF InOverlay(D, a) THEN D.ovlram[a - D.ovl[1]] ELSE Underlying(D, a)

\* read(address, size): size bytes starting at address
ReadBlock(D, a, size) == [i \in 1 .. size |-> ReadByte(D, a + i - 1)]

\* peek(address): one word
Peek(D, a) == BytesWord(ReadBlock(D, a, 4))

\* A byte store: lands in the overlay RAM where the overlay is mapped, in RAM
\* where there is RAM, and nowhere on flash or unmapped space
StoreByte(D, a, b) ==
    IF InOverlay(D, a) THEN [D EXCEPT !.ovlram[a - D.ovl[1]] = b]
    ELSE IF a \in RamAddrs THEN [D EXCEPT !.ram[a] = b]
    ELSE D

\* poke(address, word): the device's native word store
Poke(D, a, w) ==
    LET b == WordBytes(w) IN
    StoreByte(StoreByte(StoreByte(StoreByte(D, a, b[1]), a + 1, b[2]), a + 2, b[3]), a + 3, b[4])

\* The device's bulk fill: the byte b stored at each of the n bytes from a
RECURSIVE FillBytes(_, _, _, _)
FillBytes(D, a, b, n) ==
    IF n = 0 THEN D ELSE FillBytes(StoreByte(D, a, b), a + 1, b, n - 1)

\* overlay_set accepts a mapping in the first 8MB with at least one word
ValidOverlay(base, wordcount) ==
    /\ wordcount > 0
    /\ base >= 0
    /\ base + 4 * wordcount <= OverlayLimit

\* overlay_set(d, address, wordcount): the one mapping is replaced at once
overlay_set(D, base, wordcount) == [D EXCEPT !.ovl = <<base, wordcount>>]

\* overlay_get(d): (base, wordcount), (0, 0) while nothing is mapped
overlay_get(D) == D.ovl

DevInit ==
    [ ovl    |-> <<0, 0>>,
      ram    |-> [a \in RamAddrs |-> 0],
      ovlram |-> [i \in 0 .. (OvlBytes - 1) |-> 0] ]

-----------------------------------------------------------------------------
(* Device calls, as the commands issue them *)

SetOp(a, n)  == [a |-> a, k |-> "overlay_set", v |-> n]
GetOp        == [a |-> 0, k |-> "overlay_get", v |-> 0]
PokeOp(a, w) == [a |-> a, k |-> "poke", v |-> w]
PeekOp(a)    == [a |-> a, k |-> "peek", v |-> 0]
\* Not a device call: the point where the code bridge raises CodeError
RaiseOp      == [a |-> 0, k |-> "CodeError", v |-> 0]

\* The write-back half of poke_orr / poke_bic: the word fetched, with the
\* bits of w set / cleared
OrrOp(a, w)  == [a |-> a, k |-> "orr", v |-> w]
BicOp(a, w)  == [a |-> a, k |-> "bic", v |-> w]

\* read_block(d, address, size)
ReadOp(a, n) == [a |-> a, k |-> "read", v |-> n]
\* Not a device call: the scan loop of watch over the addresses a .. v
WatchOp(a, b) == [a |-> a, k |-> "watch", v |-> b]

\* The device's bulk fill: n bytes from a set to the byte b
FillOp(a, b, n) == [a |-> a, n |-> n, k |-> "fill", v |-> b]

\* The transport's send(cdb, expected_length), as scsi_in issues it
SendOp(cdb, len) == [a |-> len, k |-> "scsi_in", v |-> cdb]

\* The target is made to call the code at a, with reg in its r0
CallOp(a, reg) == [a |-> a, k |-> "call", v |-> reg]

\* d.reset(): the connection to the device is closed and opened again
ResetOp == [a |-> 0, k |-> "reset", v |-> 0]

DeviceCalls ==
    {"overlay_set", "overlay_get", "poke", "peek", "orr", "bic", "read", "fill", "scsi_in",
     "call", "reset"}

\* x | y and x & ~y on words
RECURSIVE BitOr(_, _)
BitOr(x, y) ==
    IF x = 0 THEN y
    ELSE IF y = 0 THEN x
    ELSE (IF x % 2 = 1 \/ y % 2 = 1 THEN 1 ELSE 0) + 2 * BitOr(x \div 2, y \div 2)

RECURSIVE BitBic(_, _)
BitBic(x, y) ==
    IF x = 0 THEN 0
    ELSE (IF x % 2 = 1 /\ y % 2 = 0 THEN 1 ELSE 0) + 2 * BitBic(x \div 2, y \div 2)

\* poke_orr(d, address, word): fetch the word, or in the bits, write it back
poke_orr(a, w) == <<PeekOp(a), OrrOp(a, w)>>

\* poke_bic(d, address, word): fetch the word, clear the bits, write it back
poke_bic(a, w) == <<PeekOp(a), BicOp(a, w)>>

\* poke_words(d, address, words): one poke per word, ascending
poke_words(a, words) == [i \in 1 .. Len(words) |-> PokeOp(a + 4 * (i - 1), words[i])]

\* The assembler / compiler of the code bridge, as a table of the sources used
\* here: thumb code padded to whole words, or a CodeError
assemble_string(address, code) ==
    CASE code = "nop"       -> [data |-> <<192, 70, 192, 70>>, ok |-> TRUE]
      [] code = "bx lr"     -> [data |-> <<112, 71, 192, 70>>, ok |-> TRUE]
      [] code = "nop; nop; bx lr"
                            -> [data |-> <<192, 70, 192, 70, 112, 71, 192, 70>>, ok |-> TRUE]
      [] code = ""          -> [data |-> <<>>, ok |-> TRUE]
      [] OTHER              -> [data |-> <<>>, ok |-> FALSE]

\* The C++ compiler of the code bridge, as a table of the handler bodies used
\* here: the handler's code, to be placed at handler_address, or a CodeError
compile_handler(handler_address, body) ==
    CASE body = "default_hook(regs)"
                            -> [data |-> <<16, 181, 1, 48, 112, 71, 192, 70>>, ok |-> TRUE]
      [] body = "result[0]++;"
                            -> [data |-> <<1, 48, 112, 71>>, ok |-> TRUE]
      [] OTHER              -> [data |-> <<>>, ok |-> FALSE]

\* The assembler and the target, as a table of the one-liners given to %ea
\* here: the code assembled (whole words, bytes below 128), and the r0 and r1
\* the target returns when it is called with reg in r0; or a CodeError
evalasm_table(line, reg) ==
    CASE line = "mov r1, r0; add r0, #1"
            -> [data |-> <<0, 16, 32, 97, 1, 0, 0, 98>>, ok |-> TRUE, regs |-> <<reg + 1, reg>>]
      [] line = "mov r0, #0; mov r1, #7"
            -> [data |-> <<0, 0, 32, 99, 7, 16, 32, 99>>, ok |-> TRUE, regs |-> <<0, 7>>]
      [] OTHER
            -> [data |-> <<>>, ok |-> FALSE, regs |-> <<0, 0>>]

\* The C++ compiler and the target, as a table of the expressions given to %ec
\* here: the code compiled and the value the target returns; or a CodeError
evalc_table(expr) ==
    CASE expr = "1 + 1" -> [data |-> <<2, 32, 112, 71>>, ok |-> TRUE, value |-> 2]
      [] OTHER          -> [data |-> <<>>, ok |-> FALSE, value |-> 0]

\* The 8-byte redirect placed at a hooked address: one word of code that loads
\* pc from the word after it, and that word, the handler's address
redirect(handler_address) == <<1207961600, handler_address>>

-----------------------------------------------------------------------------
(* Inputs *)

None == -1
WordVals == {1431655765, 16909060}
RECURSIVE SeqsUpTo(_, _)
SeqsUpTo(S, n) ==
    IF n = 0 THEN {<<>>}
    ELSE LET shorter == SeqsUpTo(S, n - 1)
         IN shorter \cup {Append(s, x) : s \in {t \in shorter : Len(t) = n - 1}, x \in S}
WordLists == SeqsUpTo(WordVals, MaxWords)
PatchAddrs == {FlashBase, FlashBase + 4}
OvlAddrs == {None, FlashBase, FlashBase + 4, pad + HandlerOffset}
WatchRanges == {<<WatchBase, WatchBase>>, <<WatchBase, WatchBase + 1>>}
TargetBytes == {0, 255}
FindPatterns == {<<255>>, <<255, 255>>}
MemAddrs == {WatchBase, FlashBase}
MaskLists == SeqsUpTo({16909060}, MaxWords)
Codes == {"nop", "bx lr", "nop; nop; bx lr", "", "bogus"}
HookBodies == {"", "result[0]++;", "result[0]+;"}
FillAddrs == {WatchBase, WatchBase + 4, FlashBase}
FillWords == {1431655765, 16909060}
FindAddrs == {WatchBase, WatchBase + 1, WatchBase + 3}
FindSizes == 0 .. (2 * MaxWords + 1)
FindBytes == {<<85>>, <<85, 85>>, <<1, 85>>, <<85, 85, 85>>}
CdbBytes == {<<18, 0, 0, 0, 36, 0, 0, 0, 0, 0, 0, 1>>, <<255, 1, 2, 3, 4, 5, 6, 7, 8, 9, 10, 11>>}
CdbArgs == {SubSeq(c, 1, n) : c \in CdbBytes, n \in 0 .. CdbLen}
ScLens == {0, 8, 36}
Lbas == {0, 16, 16909060}
BlockCounts == {1, 2, 258}
AsmLines == {"mov r1, r0; add r0, #1", "mov r0, #0; mov r1, #7", "mov r0, r16"}
Exprs == {"1 + 1", "1 +"}
Definitions ==
    { <<"uint32_t  sum(uint32_t* values)", "return values[0]">>,
      <<"int x = 1", "">>, <<"int x = 2", "">>, <<"", "">> }
NoArg == [address |-> 0, word |-> <<>>, src |-> "", count |-> 0]

\* No orr has just run
NoOrig == [dev |-> DevInit, address |-> 0, word |-> <<>>]

-----------------------------------------------------------------------------
(* Commands *)

Init ==
    /\ dev = DevInit
    /\ cmd = "none"
    /\ arg = NoArg
    /\ todo = <<>>
    /\ ops = <<>>
    /\ err = "none"
    /\ tmp = 0
    /\ pre = DevInit
    /\ seen = <<>>
    /\ out = <<>>
    /\ snapshot = <<>>
    /\ cycle = 0
    /\ scan = <<>>
    /\ last = <<>>
    /\ r0 = None
    /\ r1 = None
    /\ includes = {}
    /\ orig = NoOrig

\* The shell is at its prompt: the last command has returned or raised
Idle == todo = <<>>

\* A command starts: its arguments are parsed and its body laid out
Start(name, a, body) ==
    /\ Idle
    /\ cmd' = name
    /\ arg' = a
    /\ todo' = body
    /\ ops' = <<>>
    /\ err' = "none"
    /\ pre' = dev
    /\ seen' = <<>>
    /\ out' = <<>>
    /\ orig' = CASE name = "orr" -> [dev |-> dev, address |-> a.address, word |-> a.word]
                  [] name = "bic" /\ cmd = "orr" /\ err = "none" -> orig
                  [] OTHER -> NoOrig
    /\ UNCHANGED <<dev, tmp, snapshot, cycle, scan, last, r0, r1, includes>>

\* wrf with the re-map issued before the words are written
wrf_body_remap_first(address, word) ==
    <<SetOp(va, Len(word)), SetOp(address, Len(word))>> \o poke_words(va, word)

\* wrf poking the words at the target address instead of the scratch address
wrf_body_poke_target(address, word) ==
    <<SetOp(va, Len(word))>> \o poke_words(address, word) \o <<SetOp(address, Len(word))>>

\* wrf mapping the overlay onto the target first and writing the words in place
wrf_body_in_place(address, word) ==
    <<SetOp(address, Len(word))>> \o poke_words(address, word)

\* wrf moving the overlay into place with one word more than it wrote
wrf_body_extra_word(address, word) ==
    <<SetOp(va, Len(word))>> \o poke_words(va, word) \o <<SetOp(address, Len(word) + 1)>>

\* wrf: overlay_set(d, va, len(args.word)); poke_words(d, va, args.word);
\*      overlay_set(d, args.address, len(args.word))
wrf_body(address, word) ==
    <<SetOp(va, Len(word))>> \o poke_words(va, word) \o <<SetOp(address, Len(word))>>

wrf(address, word) ==
    Start("wrf", [NoArg EXCEPT !.address = address, !.word = word], wrf_body(address, word))

\* asmf mapping the overlay at the scratch address before it assembles
asmf_body_map_first(address, code) ==
    LET r == assemble_string(address, code)
        words == words_from_string(r.data)
    IN  IF ~r.ok THEN <<SetOp(va, 1), RaiseOp>>
        ELSE <<SetOp(va, Len(words))>> \o poke_words(va, words) \o <<SetOp(address, Len(words))>>

\* asmf: data = assemble_string(...); words = words_from_string(data);
\*       overlay_set(d, va, len(words)); poke_words(d, va, words);
\*       overlay_set(d, args.address, len(words))
asmf_body(address, code) ==
    LET r == assemble_string(address, code)
        words == words_from_string(r.data)
    IN  IF ~r.ok THEN <<RaiseOp>>
        ELSE <<SetOp(va, Len(words))>> \o poke_words(va, words) \o <<SetOp(address, Len(words))>>

asmf(address, code) ==
    Start("asmf",
          [NoArg EXCEPT !.address = address,
                        !.word = words_from_string(assemble_string(address, code).data),
                        !.src = code],
          asmf_body(address, code))

\* wr losing the first of its words
wr_body_drop_first(address, word) ==
    IF word = <<>> THEN <<>> ELSE poke_words(address, Tail(word))

\* wr: poke_words(d, args.address, args.word)
wr_body(address, word) == poke_words(address, word)

wr(address, word) ==
    Start("wr", [NoArg EXCEPT !.address = address, !.word = word], wr_body(address, word))

\* orr: for i, w in enumerate(args.word): poke_orr(d, args.address + i*4, w)
orr_body(address, word) ==
    Flatten([i \in 1 .. Len(word) |-> poke_orr(address + (i - 1) * 4, word[i])])

orr(address, word) ==
    Start("orr", [NoArg EXCEPT !.address = address, !.word = word], orr_body(address, word))

\* bic calling poke_orr, as the orr it was copied from does
bic_body_as_orr(address, word) ==
    Flatten([i \in 1 .. Len(word) |-> poke_orr(address + (i - 1) * 4, word[i])])

\* bic: for i, w in enumerate(args.word): poke_bic(d, args.address + i*4, w)
bic_body(address, word) ==
    Flatten([i \in 1 .. Len(word) |-> poke_bic(address + (i - 1) * 4, word[i])])

bic(address, word) ==
    Start("bic", [NoArg EXCEPT !.address = address, !.word = word], bic_body(address, word))

\* ovl dropping its wordcount argument (overlay_set's default of one word)
ovl_body_one_word(address, wordcount) ==
    IF address = None THEN <<GetOp>> ELSE <<SetOp(address, 1)>>

\* ovl: if args.address is None: print overlay_get(d)
\*      else: overlay_set(d, args.address, args.wordcount)
ovl_body(address, wordcount) ==
    IF address = None THEN <<GetOp>> ELSE <<SetOp(address, wordcount)>>

ovl(address, wordcount) ==
    Start("ovl", [NoArg EXCEPT !.address = address, !.count = wordcount],
          ovl_body(address, wordcount))

\* overlay_hook installing the redirect before the handler is written
overlay_hook_redirect_first(hook_address, handler, handler_address) ==
    LET r == compile_handler(handler_address, handler)
    IN  IF ~r.ok THEN <<RaiseOp>>
        ELSE <<SetOp(va, 2)>>
                \o poke_words(va, redirect(handler_address))
                \o <<SetOp(hook_address, 2)>>
                \o poke_words(handler_address, words_from_string(r.data))

\* overlay_hook(d, hook_address, handler, handler_address): compile the handler,
\* write it to the scratch pad, then map / write / re-map the redirect
overlay_hook(hook_address, handler, handler_address) ==
    LET r == compile_handler(handler_address, handler)
    IN  IF ~r.ok THEN <<RaiseOp>>
        ELSE poke_words(handler_address, words_from_string(r.data))
                \o <<SetOp(va, 2)>>
                \o poke_words(va, redirect(handler_address))
                \o <<SetOp(hook_address, 2)>>

\* hook: overlay_hook(d, args.hook_address, cell or "default_hook(regs)",
\*                    handler_address = args.handler_address, ...)
hook_body(hook_address, handler_address, cell) ==
    overlay_hook(hook_address,
                 IF cell = "" THEN "default_hook(regs)" ELSE cell,
                 handler_address)

hook(hook_address, handler_address, cell) ==
    Start("hook",
          [NoArg EXCEPT !.address = hook_address,
                        !.word = redirect(handler_address),
                        !.src = IF cell = "" THEN "default_hook(regs)" ELSE cell],
          hook_body(hook_address, handler_address, cell))

\* watch reading a range without its last address
watch_body_exclusive(first, final) == <<WatchOp(first, final - 1)>>

\* watch: changes = watch_scanner(d, args.address), an address or a range
\* start:end "including both endpoints"; then the loop over the changes
watch_body(first, final) == <<WatchOp(first, final)>>

watch(first, final) ==
    /\ Idle
    /\ cmd' = "watch"
    /\ arg' = [NoArg EXCEPT !.address = first, !.count = final - first + 1]
    /\ todo' = watch_body(first, final)
    /\ ops' = <<>>
    /\ err' = "none"
    /\ pre' = dev
    /\ seen' = <<>>
    /\ out' = <<>>
    /\ snapshot' = <<>>
    /\ cycle' = 0
    /\ scan' = <<>>
    /\ last' = <<>>
    /\ orig' = NoOrig
    /\ UNCHANGED <<dev, tmp, r0, r1, includes>>

\* search_block: the addresses in [address, address + size) at which the
\* pattern lies whole within the block read, ascending
search_block(block, address, pattern) ==
    LET hit(i) == i + Len(pattern) - 1 <= Len(block)
                    /\ SubSeq(block, i, i + Len(pattern) - 1) = pattern
        RECURSIVE from(_)
        from(i) == IF i > Len(block) THEN <<>>
                   ELSE (IF hit(i) THEN <<address + i - 1>> ELSE <<>>) \o from(i + 1)
    IN  from(1)

\* find reading on past the block so that a match may straddle its end
find_body_padded(address, size, pattern) ==
    <<ReadOp(address, size + Len(pattern) - 1)>>

\* find: for address, before, after in search_block(d, address, size, substr)
find_body(address, size, pattern) == <<ReadOp(address, size)>>

find(address, size, pattern) ==
    Start("find",
          [NoArg EXCEPT !.address = address, !.count = size, !.word = pattern],
          find_body(address, size, pattern))

\* d.fill(address, word, count): a word made of one byte repeated is filled by
\* the device's bulk fill, any other word by one poke per word
d_fill(address, word, count) ==
    LET b == WordBytes(word)
    IN  IF b[1] = b[2] /\ b[2] = b[3] /\ b[3] = b[4]
        THEN <<FillOp(address, b[1], 4 * count)>>
        ELSE [i \in 1 .. count |-> PokeOp(address + 4 * (i - 1), word)]

\* fill handing d.fill a count of bytes where it takes a count of words
fill_body_byte_count(address, word, count) == d_fill(address, word, 4 * count)

\* fill: d.fill(args.address, args.word, args.count)
fill_body(address, word, count) == d_fill(address, word, count)

fill(address, word, count) ==
    Start("fill",
          [NoArg EXCEPT !.address = address, !.word = <<word>>, !.count = count],
          fill_body(address, word, count))

\* struct '>I': a 32-bit value as its four bytes, most significant first
BigEndian(w) ==
    << (w \div 16777216) % 256, (w \div 65536) % 256, (w \div 256) % 256, w % 256 >>

\* scsi_in(d, cdb, len): the bytes given, filled up with zeros to the 12 bytes
\* of a CDB, are sent with the length to read.  (No more than 12 are given here.)
scsi_in(cdb, len) ==
    <<SendOp([i \in 1 .. CdbLen |-> IF i <= Len(cdb) THEN cdb[i] ELSE 0], len)>>

\* sc: cdb = ''.join(map(chr, args.cdb)); data = scsi_in(d, cdb, args.len)
sc_body(len, cdb) == scsi_in(cdb, len)

sc(len, cdb) ==
    Start("sc", [NoArg EXCEPT !.word = cdb, !.count = len], sc_body(len, cdb))

\* eject: self.sc('0 1b 0 0 0 2')
eject ==
    Start("eject", [NoArg EXCEPT !.word = <<27, 0, 0, 0, 2>>, !.count = 0],
          sc_body(0, <<27, 0, 0, 0, 2>>))

\* sc_sense: self.sc('20 3 0 0 0 20')
sc_sense ==
    Start("sc_sense", [NoArg EXCEPT !.word = <<3, 0, 0, 0, 32>>, !.count = 32],
          sc_body(32, <<3, 0, 0, 0, 32>>))

\* sc_read packing the block address and the length least significant byte first
sc_read_cdb_little_endian(lba, length) ==
    <<168, 0>> \o WordBytes(lba) \o WordBytes(length)

\* sc_read: cdb = struct.pack('>BBII', 0xA8, 0, args.lba, args.length)
sc_read_cdb(lba, length) == <<168, 0>> \o BigEndian(lba) \o BigEndian(length)

\* sc_read: data = scsi_in(d, cdb, args.length * 2048)
sc_read(lba, length) ==
    Start("sc_read", [NoArg EXCEPT !.address = lba, !.count = length],
          scsi_in(sc_read_cdb(lba, length), length * BlockSize))

\* evalasm(d, line, r0, address): assemble the line, write the code at
\* address, call it with r0
evalasm(line, reg, address) ==
    LET r == evalasm_table(line, reg)
    IN  IF ~r.ok THEN <<RaiseOp>>
        ELSE poke_words(address, words_from_string(r.data)) \o <<CallOp(address, reg)>>

\* evalc(d, expr, address): compile the expression, write the code at address,
\* call it
evalc(expr, address) ==
    LET r == evalc_table(expr)
    IN  IF ~r.ok THEN <<RaiseOp>>
        ELSE poke_words(address, words_from_string(r.data)) \o <<CallOp(address, 0)>>

\* ec: return evalc(d, line + cell, defines=all_defines(), address=address),
\* with address=pad+0x100
ec_body(expr) == evalc(expr, pad + HandlerOffset)

ec(expr) == Start("ec", [NoArg EXCEPT !.address = pad + HandlerOffset, !.src = expr], ec_body(expr))

\* ea handing evalasm 0 where it is to hand it r0
ea_body_zero_input(line, reg) == evalasm(line, 0, pad + HandlerOffset)

\* ea: r0, r1 = evalasm(d, line, r0 or 0, defines=all_defines(), address=address),
\* with address=pad+0x100
ea_body(line, reg) == evalasm(line, reg, pad + HandlerOffset)

ea(line) ==
    Start("ea", [NoArg EXCEPT !.address = pad + HandlerOffset, !.src = line],
          ea_body(line, IF r0 = None THEN 0 ELSE r0))

\* rd: dump(d, args.address, args.size)
rd_body(address, size) == <<ReadOp(address, size)>>

rd(address, size) ==
    Start("rd", [NoArg EXCEPT !.address = address, !.count = size], rd_body(address, size))

\* rdw: dump_words(d, args.address, args.wordcount)
rdw_body(address, wordcount) == <<ReadOp(address, 4 * wordcount)>>

rdw(address, wordcount) ==
    Start("rdw", [NoArg EXCEPT !.address = address, !.count = wordcount],
          rdw_body(address, wordcount))

\* reset mapping the overlay at the scratch address once the device is open
reset_body_remap == <<ResetOp, SetOp(va, 1)>>

\* reset: d.reset()
reset_body == <<ResetOp>>

reset == Start("reset", NoArg, reset_body)

\* fc, as a table of the definitions given here: the key and the body stored.
\* In line mode the key is the line up to the first '{' or '=' and the body is
\* the line and ';'; in cell mode the key is the line, its white space
\* normalized, and the body is "line {\ncell;\n};\n".
fc_entry(line, cell) ==
    CASE cell # "" /\ line = "uint32_t  sum(uint32_t* values)"
            -> << "uint32_t sum(uint32_t* values)",
                  "uint32_t  sum(uint32_t* values) {\nreturn values[0];\n};\n" >>
      [] cell = "" /\ line = "int x = 1" -> << "int x ", "int x = 1;" >>
      [] cell = "" /\ line = "int x = 2" -> << "int x ", "int x = 2;" >>

\* fc: if cell: includes[dict_key] = body
\*     elif not line.strip(): list the definitions
\*     else: includes[dict_key] = line + ';'
fc(line, cell) ==
    /\ Idle
    /\ cmd' = "fc"
    /\ arg' = [NoArg EXCEPT !.src = line]
    /\ todo' = <<>>
    /\ ops' = <<>>
    /\ err' = "none"
    /\ pre' = dev
    /\ seen' = <<>>
    /\ out' = IF cell = "" /\ line = "" THEN <<includes>> ELSE <<>>
    /\ includes' = IF cell = "" /\ line = "" THEN includes
                   ELSE LET e == fc_entry(line, cell)
                        IN  {p \in includes : p[1] # e[1]} \cup {e}
    /\ orig' = NoOrig
    /\ UNCHANGED <<dev, tmp, snapshot, cycle, scan, last, r0, r1>>

-----------------------------------------------------------------------------
(* Execution of the calls *)

\* The effect of a call the device performs; t is the word last fetched
Apply(D, op, t) ==
    CASE op.k = "overlay_set" -> overlay_set(D, op.a, op.v)
      [] op.k = "poke"        -> Poke(D, op.a, op.v)
      [] op.k = "orr"         -> Poke(D, op.a, BitOr(t, op.v))
      [] op.k = "bic"         -> Poke(D, op.a, BitBic(t, op.v))
      [] op.k = "fill"        -> FillBytes(D, op.a, op.v, op.n)
      [] OTHER                -> D

\* A command that swallows the transport's exception and carries on
on_failure_continue(rest) == Tail(rest)

\* What is left of a command when a call raises: the commands catch nothing
\* but CodeError and KeyboardInterrupt, so the exception ends the command
on_failure(rest) == <<>>

\* The device performs the next call of the running command
DeviceStep ==
    /\ todo # <<>>
    /\ Head(todo).k \in DeviceCalls
    /\ Head(todo).k = "overlay_set" => ValidOverlay(Head(todo).a, Head(todo).v)
    /\ dev' = Apply(dev, Head(todo), tmp)
    /\ ops' = Append(ops, Head(todo))
    /\ todo' = Tail(todo)
    /\ tmp' = IF Head(todo).k = "peek" THEN Peek(dev, Head(todo).a) ELSE tmp
    /\ out' = CASE Head(todo).k = "overlay_get" -> Append(out, overlay_get(dev))
                [] Head(todo).k = "read" /\ cmd = "find" ->
                      search_block(ReadBlock(dev, Head(todo).a, Head(todo).v),
                                   Head(todo).a, arg.word)
                [] Head(todo).k = "read" /\ cmd # "find" ->
                      <<ReadBlock(dev, Head(todo).a, Head(todo).v)>>
                [] Head(todo).k = "scsi_in" -> <<Head(todo).a>>
                [] Head(todo).k = "call" /\ cmd = "ec" -> <<evalc_table(arg.src).value>>
                [] OTHER -> out
    /\ r0' = IF Head(todo).k = "call" /\ cmd = "ea"
             THEN evalasm_table(arg.src, Head(todo).v).regs[1] ELSE r0
    /\ r1' = IF Head(todo).k = "call" /\ cmd = "ea"
             THEN evalasm_table(arg.src, Head(todo).v).regs[2] ELSE r1
    /\ UNCHANGED <<cmd, arg, err, pre, seen, snapshot, cycle, scan, last, includes, orig>>

\* overlay_set refuses an invalid base or count: OverlayStateError
OverlayReject ==
    /\ todo # <<>>
    /\ Head(todo).k = "overlay_set"
    /\ ~ValidOverlay(Head(todo).a, Head(todo).v)
    /\ ops' = Append(ops, Head(todo))
    /\ todo' = <<>>
    /\ err' = "OverlayStateError"
    /\ UNCHANGED <<dev, cmd, arg, tmp, pre, seen, out, snapshot, cycle, scan, last,
                   r0, r1, includes, orig>>

\* The transport fails on the next call: the exception ends the command
TransportFail ==
    /\ todo # <<>>
    /\ Head(todo).k \in DeviceCalls
    /\ ops' = Append(ops, Head(todo))
    /\ todo' = on_failure(todo)
    /\ err' = "TransportError"
    /\ UNCHANGED <<dev, cmd, arg, tmp, pre, seen, out, snapshot, cycle, scan, last,
                   r0, r1, includes, orig>>

\* The code bridge raises CodeError: the exception ends the command (asmf lets
\* it through; hook, ec and ea hand it to usage_error_from_code, which raises a
\* UsageError)
Raise ==
    /\ todo # <<>>
    /\ Head(todo).k = "CodeError"
    /\ todo' = <<>>
    /\ err' = (IF cmd \in {"hook", "ec", "ea"} THEN "UsageError" ELSE "CodeError")
    /\ UNCHANGED <<dev, cmd, arg, ops, tmp, pre, seen, out, snapshot, cycle, scan, last,
                   r0, r1, includes, orig>>

\* The target, running on its own, fetches the range a patch command is patching
TargetFetch ==
    /\ cmd \in {"wrf", "asmf", "hook"}
    /\ Len(arg.word) > 0
    /\ seen' = ReadBlock(dev, arg.address, 4 * Len(arg.word))
    /\ UNCHANGED <<dev, cmd, arg, todo, ops, err, tmp, pre, out, snapshot, cycle, scan, last,
                   r0, r1, includes, orig>>

\* The target, running on its own, stores a byte in its data RAM
TargetWrite(a, b) ==
    /\ ReadByte(dev, a) # b
    /\ dev' = StoreByte(dev, a, b)
    /\ UNCHANGED <<cmd, arg, todo, ops, err, tmp, pre, seen, out, snapshot, cycle, scan, last,
                   r0, r1, includes, orig>>

-----------------------------------------------------------------------------
(* The scan loop of watch *)

Watching == todo # <<>> /\ Head(todo).k = "watch"

\* watch_scanner: the value read for the i-th address becomes its previous value
watch_store(snap, i, v) ==
    IF i <= Len(snap) THEN [snap EXCEPT ![i] = v] ELSE Append(snap, v)

\* watch_scanner: a change record when the i-th address has a previous value
\* and the value read differs from it
watch_emit(snap, i, a, v) ==
    IF i <= Len(snap) /\ snap[i] # v THEN << <<a, snap[i], v>> >> ELSE <<>>

\* One read of the scan loop: the next watched address of the running cycle,
\* or the first address of a new cycle
WatchRead ==
    /\ Watching
    /\ LET first == Head(todo).a
           n == Head(todo).v - first + 1
           fresh == Len(scan) >= n
           i == IF fresh THEN 1 ELSE Len(scan) + 1
           a == first + i - 1
           v == ReadByte(dev, a)
       IN  /\ n > 0
           /\ scan' = IF fresh THEN <<v>> ELSE Append(scan, v)
           /\ last' = IF fresh THEN scan ELSE last
           /\ ops' = IF fresh THEN <<PeekOp(a)>> ELSE Append(ops, PeekOp(a))
           /\ out' = (IF fresh THEN <<>> ELSE out) \o watch_emit(snapshot, i, a, v)
           /\ snapshot' = watch_store(snapshot, i, v)
           /\ cycle' = IF i = n /\ cycle < MaxCycles THEN cycle + 1 ELSE cycle
    /\ UNCHANGED <<dev, cmd, arg, todo, err, tmp, pre, seen,
                   r0, r1, includes, orig>>

\* The transport fails on a read of the scan loop
WatchReadFail ==
    /\ Watching
    /\ Head(todo).v >= Head(todo).a
    /\ todo' = on_failure(todo)
    /\ err' = "TransportError"
    /\ UNCHANGED <<dev, cmd, arg, ops, tmp, pre, seen, out, snapshot, cycle, scan, last,
                   r0, r1, includes, orig>>

\* watch tidying the device up when it is interrupted
watch_interrupt_cleanup(rest) == <<SetOp(va, 1)>>

\* What is left of watch when it is interrupted:
\* except KeyboardInterrupt: pass
watch_interrupt(rest) == <<>>

\* The operator interrupts the watch
Interrupt ==
    /\ Watching
    /\ todo' = watch_interrupt(todo)
    /\ UNCHANGED <<dev, cmd, arg, ops, err, tmp, pre, seen, out, snapshot, cycle, scan, last,
                   r0, r1, includes, orig>>

-----------------------------------------------------------------------------
(* The patch commands: wrf, asmf, ovl *)

NextPatch ==
    \/ \E a \in PatchAddrs, w \in WordLists : wrf(a, w)
    \/ \E a \in PatchAddrs, c \in Codes : asmf(a, c)
    \/ \E a \in OvlAddrs, n \in 0 .. MaxWords : ovl(a, n)
    \/ DeviceStep
    \/ OverlayReject
    \/ TransportFail
    \/ Raise

SpecPatch == Init /\ [][NextPatch]_vars

(* The commands that compile code: hook, asmf *)

NextCode ==
    \/ \E a \in PatchAddrs, c \in HookBodies : hook(a, pad + HandlerOffset, c)
    \/ \E a \in PatchAddrs, c \in Codes : asmf(a, c)
    \/ DeviceStep
    \/ OverlayReject
    \/ TransportFail
    \/ Raise

SpecCode == Init /\ [][NextCode]_vars

(* The commands that write memory in several steps: wr, orr, bic, wrf, asmf *)

\* The sessions explored either work on RAM or patch flash: the two touch
\* disjoint parts of the device.
NextMem ==
    \/ /\ cmd \in {"none", "wr", "orr", "bic"}
       /\ \/ \E w \in WordLists : wr(WatchBase, w)
          \/ \E w \in MaskLists : orr(WatchBase, w)
          \/ \E w \in MaskLists : bic(WatchBase, w)
    \/ /\ cmd \in {"none", "wrf", "asmf"}
       /\ \/ \E w \in WordLists : wrf(FlashBase, w)
          \/ \E c \in Codes : asmf(FlashBase, c)
    \/ DeviceStep
    \/ OverlayReject
    \/ TransportFail
    \/ Raise

SpecMem == Init /\ [][NextMem]_vars

(* wr over RAM, flash, and flash with the overlay mapped onto it *)

NextWrite ==
    \/ \E a \in MemAddrs, w \in WordLists : wr(a, w)
    \/ \E n \in 0 .. MaxWords : ovl(FlashBase, n)
    \/ DeviceStep
    \/ OverlayReject
    \/ TransportFail

SpecWrite == Init /\ [][NextWrite]_vars

(* watch and find, with the target writing its data RAM *)

NextWatch ==
    \/ \E r \in WatchRanges : watch(r[1], r[2])
    \/ \E n \in 1 .. (MaxWords + 1), p \in FindPatterns : find(WatchBase, n, p)
    \/ WatchRead
    \/ WatchReadFail
    \/ Interrupt
    \/ DeviceStep
    \/ TransportFail
    \/ \E a \in {WatchBase, WatchBase + 1}, b \in TargetBytes : TargetWrite(a, b)

SpecWatch == Init /\ [][NextWatch]_vars

(* wrf with the target running alongside *)

NextTarget ==
    \/ \E a \in PatchAddrs, w \in WordLists : wrf(a, w)
    \/ DeviceStep
    \/ OverlayReject
    \/ TransportFail
    \/ TargetFetch

SpecTarget == Init /\ [][NextTarget]_vars

(* fill over RAM, flash, and flash with the overlay mapped onto it *)

NextFill ==
    \/ \E a \in FillAddrs, w \in FillWords, n \in 0 .. MaxWords : fill(a, w, n)
    \/ \E n \in 1 .. MaxWords : ovl(FlashBase, n)
    \/ DeviceStep
    \/ TransportFail

SpecFill == Init /\ [][NextFill]_vars

(* orr followed by bic with the same arguments, over words that wr has set *)

\* The sessions explored set words with wr first, then run orr, and bic right
\* after an orr that has returned.
NextRmw ==
    \/ /\ cmd \in {"none", "wr"}
       /\ \E a \in MemAddrs, w \in WordLists : wr(a, w)
    \/ /\ cmd \in {"none", "wr", "bic"}
       /\ \E a \in MemAddrs, m \in MaskLists : orr(a, m)
    \/ /\ cmd = "orr"
       /\ err = "none"
       /\ \E a \in MemAddrs, m \in MaskLists : bic(a, m)
    \/ DeviceStep
    \/ TransportFail

SpecRmw == Init /\ [][NextRmw]_vars

(* find over RAM that fill has set *)

NextFind ==
    \/ \E a \in {WatchBase, WatchBase + 4}, w \in FillWords, n \in 1 .. MaxWords : fill(a, w, n)
    \/ \E a \in FindAddrs, n \in FindSizes, p \in FindBytes : find(a, n, p)
    \/ DeviceStep
    \/ TransportFail

SpecFind == Init /\ [][NextFind]_vars

(* The SCSI commands: sc, eject, sc_sense, sc_read *)

NextScsi ==
    \/ \E len \in ScLens, cdb \in CdbArgs : sc(len, cdb)
    \/ eject
    \/ sc_sense
    \/ \E lba \in Lbas, n \in BlockCounts : sc_read(lba, n)
    \/ DeviceStep
    \/ TransportFail

SpecScsi == Init /\ [][NextScsi]_vars

(* The commands that evaluate code on the target: ea, ec *)

NextEval ==
    \/ /\ r0 = None \/ r0 < MaxReg
       /\ \E line \in AsmLines : ea(line)
    \/ \E expr \in Exprs : ec(expr)
    \/ DeviceStep
    \/ TransportFail
    \/ Raise

SpecEval == Init /\ [][NextEval]_vars

(* One patch after another: wrf and hook *)

NextAccum ==
    \/ \E a \in PatchAddrs, w \in WordLists : wrf(a, w)
    \/ \E a \in PatchAddrs : hook(a, pad + HandlerOffset, "")
    \/ DeviceStep
    \/ OverlayReject
    \/ TransportFail

SpecAccum == Init /\ [][NextAccum]_vars

(* hook, and the evaluations that may follow it: ec, ea *)

NextHook ==
    \/ \E a \in PatchAddrs, c \in HookBodies : hook(a, pad + HandlerOffset, c)
    \/ /\ r0 = None \/ r0 < MaxReg
       /\ \E line \in AsmLines : ea(line)
    \/ \E expr \in Exprs : ec(expr)
    \/ DeviceStep
    \/ TransportFail
    \/ Raise

SpecHook == Init /\ [][NextHook]_vars

(* The commands that move the overlay and the commands that are to leave it *)

SetUp == {"none", "wrf", "asmf", "hook", "ovl", "fc", "ea"}

\* The sessions explored first set the session up (patches, a hook,
\* definitions, an evaluation) and then run one of the other commands.
NextFrame ==
    \/ /\ cmd \in SetUp
       /\ \/ wrf(FlashBase, <<1431655765>>)
          \/ asmf(FlashBase + 4, "bx lr")
          \/ hook(FlashBase, pad + HandlerOffset, "")
          \/ \E n \in 1 .. MaxWords : ovl(FlashBase + 4, n)
          \/ \E d \in Definitions : fc(d[1], d[2])
          \/ r0 = None /\ ea("mov r1, r0; add r0, #1")
    \/ /\ cmd \in SetUp
       /\ \/ ovl(None, 1)
          \/ rd(WatchBase, 4)
          \/ rdw(FlashBase, 1)
          \/ wr(WatchBase, <<16909060>>)
          \/ orr(WatchBase, <<16909060>>)
          \/ bic(WatchBase, <<16909060>>)
          \/ fill(WatchBase, 1431655765, 1)
          \/ find(FlashBase, 4, <<85>>)
          \/ watch(FlashBase, FlashBase)
          \/ reset
    \/ WatchRead
    \/ WatchReadFail
    \/ Interrupt
    \/ DeviceStep
    \/ TransportFail

SpecFrame == Init /\ [][NextFrame]_vars

-----------------------------------------------------------------------------
(* Properties *)

IsPrefix(s, t) == Len(s) <= Len(t) /\ SubSeq(t, 1, Len(s)) = s

\* The command has returned normally
Returned == cmd # "none" /\ todo = <<>> /\ err = "none"

\* The calls a patch of words W at address A is to issue, in order
PatchCalls(A, W) ==
    <<SetOp(va, Len(W))>>
        \o [i \in 1 .. Len(W) |-> PokeOp(va + 4 * (i - 1), W[i])]
        \o <<SetOp(A, Len(W))>>

\* C1: the calls issued by wrf and asmf are, in order, overlay_set(va, len(W)),
\* the pokes of W at ascending addresses from va, and one overlay_set(A, len(W)):
\* at every point the calls issued so far are a prefix of that sequence, all of
\* it once the command has returned, and no poke targets A.
C1_PatchOrder ==
    cmd \in {"wrf", "asmf"} =>
        /\ IsPrefix(ops, PatchCalls(arg.address, arg.word))
        /\ Returned => ops = PatchCalls(arg.address, arg.word)
        /\ \A i \in 1 .. Len(ops) : ops[i].k = "poke" => ops[i].a # arg.address

C1_Witness ==
    /\ cmd = "asmf"
    /\ Returned
    /\ Len(arg.word) = 2
    /\ Len(ops) = 4

\* C2: once wrf(A, W) with W non-empty has returned normally, reading
\* 4*len(W) bytes at A gives the bytes of W and the overlay mapping is
\* (A, len(W)), whatever the mapping was before.
C2_PatchReadBack ==
    (cmd = "wrf" /\ Returned /\ Len(arg.word) > 0) =>
        /\ ReadBlock(dev, arg.address, 4 * Len(arg.word)) = WordsBytes(arg.word)
        /\ overlay_get(dev) = <<arg.address, Len(arg.word)>>

\* a wrf over a range the overlay already covered in part, holding other words
C2_Witness ==
    /\ cmd = "wrf"
    /\ Returned
    /\ Len(arg.word) = 2
    /\ arg.address = FlashBase
    /\ pre.ovl = <<FlashBase + 4, 1>>
    /\ ReadBlock(pre, FlashBase + 4, 4) # WordBytes(arg.word[2])

\* The contents of the patched range with no overlay mapped over it
FlashContents(A, n) == [i \in 1 .. (4 * n) |-> FlashByte(A + i - 1)]

\* C3 as stated: whatever the target fetches from the patched range while
\* wrf(A, W) runs is either what the range held just before the call or W.
C3_FetchOldOrNew ==
    (cmd = "wrf" /\ seen # <<>>) =>
        seen \in { ReadBlock(pre, arg.address, 4 * Len(arg.word)),
                   WordsBytes(arg.word) }

\* C3 amended: whatever the target fetches from the patched range while
\* wrf(A, W) runs is what the range held just before the call, or the flash
\* contents under it, or W: never a partly written mixture.
C3_FetchOldFlashOrNew ==
    (cmd = "wrf" /\ seen # <<>>) =>
        seen \in { ReadBlock(pre, arg.address, 4 * Len(arg.word)),
                   FlashContents(arg.address, Len(arg.word)),
                   WordsBytes(arg.word) }

\* the target fetched while the words were being written to the scratch
\* address, during a re-patch of a range that an earlier patch covered
C3_Witness ==
    /\ cmd = "wrf"
    /\ Len(arg.word) = 2
    /\ Len(ops) = 2
    /\ todo # <<>>
    /\ pre.ovl = <<arg.address, 2>>
    /\ seen = FlashContents(arg.address, 2)

InRange(a, base, n) == a >= base /\ a < base + 4 * n

\* C4 (state part): after ovl has set (b, n) the mapping is exactly (b, n) and
\* no flash outside that range is overlaid; ovl without arguments prints the
\* mapping in force and leaves the device as it was; before any command the
\* mapping is (0, 0).
C4_OverlayState ==
    /\ cmd = "none" => overlay_get(dev) = <<0, 0>>
    /\ (cmd = "ovl" /\ Returned /\ arg.address # None) =>
          /\ overlay_get(dev) = <<arg.address, arg.count>>
          /\ \A a \in FlashAddrs :
                ~InRange(a, arg.address, arg.count) => ReadByte(dev, a) = FlashByte(a)
    /\ (cmd = "ovl" /\ Returned /\ arg.address = None) =>
          /\ out = <<overlay_get(pre)>>
          /\ dev = pre

\* C4 (step part): the mapping changes only in a step in which an overlay_set
\* call is performed, and then to that call's (base, count).
C4_OverlayStep ==
    overlay_get(dev)' # overlay_get(dev) =>
        /\ Len(ops') = Len(ops) + 1
        /\ ops'[Len(ops')].k = "overlay_set"
        /\ overlay_get(dev)' = <<ops'[Len(ops')].a, ops'[Len(ops')].v>>

\* C4: the overlay has one mapping, replaced whole by each set, read by get
C4_Overlay == []C4_OverlayState /\ [][C4_OverlayStep]_vars

\* a second set over a first, different one, of two words
C4_Witness ==
    /\ cmd = "ovl"
    /\ Returned
    /\ arg.address = FlashBase
    /\ arg.count = 2
    /\ pre.ovl = <<FlashBase + 4, 1>>

\* The redirect to the handler can be read at the hooked address
RedirectReadable(D) ==
    ReadBlock(D, arg.address, 8) = WordsBytes(redirect(pad + HandlerOffset))

\* The handler compiled from the hook's body lies whole at handler_address
HandlerPresent(D) ==
    LET r == compile_handler(pad + HandlerOffset, arg.src)
    IN  r.ok /\ ReadBlock(D, pad + HandlerOffset, Len(r.data)) = r.data

\* The scratch pad at handler_address still holds what it held when the command
\* started (the handler of an earlier hook, if there was one)
HandlerUntouched ==
    ReadBlock(dev, pad + HandlerOffset, 4 * MaxWords)
        = ReadBlock(pre, pad + HandlerOffset, 4 * MaxWords)

\* C5 as stated: in every state of a hook command whose body compiles, if the
\* redirect can be read at hook_address then a complete handler lies at
\* handler_address: the one compiled by this command (or, before this command
\* has written anything there, whatever an earlier one left).
C5_RedirectImpliesHandler ==
    (cmd = "hook" /\ compile_handler(pad + HandlerOffset, arg.src).ok) =>
        (RedirectReadable(dev) => HandlerPresent(dev) \/ HandlerUntouched)

\* C5 amended: the same, for a hook command that was started while no redirect
\* to handler_address could be read at hook_address; and once such a command
\* has returned, redirect and handler are both in place.
C5_FreshHookRedirectImpliesHandler ==
    (cmd = "hook" /\ compile_handler(pad + HandlerOffset, arg.src).ok
                  /\ ~RedirectReadable(pre)) =>
        /\ RedirectReadable(dev) => HandlerPresent(dev)
        /\ Returned => RedirectReadable(dev) /\ HandlerPresent(dev)

\* a hook that has returned, begun while another address was hooked with
\* another handler body
C5_Witness ==
    /\ cmd = "hook"
    /\ Returned
    /\ arg.src = "result[0]++;"
    /\ pre.ovl = <<FlashBase + 4, 2>>
    /\ ~RedirectReadable(pre)
    /\ RedirectReadable(dev)
    /\ ReadBlock(pre, pad + HandlerOffset, 4) # ReadBlock(dev, pad + HandlerOffset, 4)

\* C6: when the handler body of hook or the code of asmf does not compile, the
\* command ends with the error having issued no device call, and the device
\* (memory and overlay mapping) is as it was before the command.
C6_CompileFailureTouchesNothing ==
    (cmd \in {"hook", "asmf"} /\ err \in {"CodeError", "UsageError"}) =>
        /\ ops = <<>>
        /\ dev = pre

\* a failed asmf, and a failed hook, each over a device that earlier commands
\* have patched
C6_Witness ==
    /\ cmd \in {"hook", "asmf"}
    /\ err \in {"CodeError", "UsageError"}
    /\ todo = <<>>
    /\ pre.ovl[2] > 0
    /\ pre.ovl[1] = FlashBase

\* The device after it has performed the calls s, one after the other
RECURSIVE Replay(_, _, _)
Replay(D, t, s) ==
    IF s = <<>> THEN D
    ELSE Replay(Apply(D, Head(s), t),
                IF Head(s).k = "peek" THEN Peek(D, Head(s).a) ELSE t,
                Tail(s))

\* The calls each multi-step command is to issue, in order
StepCalls ==
    LET A == arg.address
        W == arg.word
        at(j) == A + 4 * ((j - 1) \div 2)
    IN  CASE cmd = "wr"  -> [i \in 1 .. Len(W) |-> PokeOp(A + 4 * (i - 1), W[i])]
          [] cmd = "orr" -> [j \in 1 .. (2 * Len(W)) |->
                                IF j % 2 = 1 THEN PeekOp(at(j)) ELSE OrrOp(at(j), W[j \div 2])]
          [] cmd = "bic" -> [j \in 1 .. (2 * Len(W)) |->
                                IF j % 2 = 1 THEN PeekOp(at(j)) ELSE BicOp(at(j), W[j \div 2])]
          [] OTHER       -> PatchCalls(A, W)

\* The word a command leaves at its i-th address (from 0) when it gets that far
WordWritten(i) ==
    LET old == Peek(pre, arg.address + 4 * i)
    IN  CASE cmd = "wr"  -> arg.word[i + 1]
          [] cmd = "orr" -> BitOr(old, arg.word[i + 1])
          [] cmd = "bic" -> BitBic(old, arg.word[i + 1])

\* C7: when the transport fails on a call of wr, orr, bic, wrf or asmf, the
\* command ends there: the failed call was sent once, nothing is sent after it,
\* and the device is as the calls completed before it left it.  For wr, orr and
\* bic the words before the failed one are written and the others are as they
\* were; a wrf or asmf that fails while writing the scratch address leaves the
\* overlay mapped there and the target address showing its flash contents.
C7_FailureStopsCommand ==
    (cmd \in {"wr", "orr", "bic", "wrf", "asmf"} /\ err = "TransportError") =>
        /\ todo = <<>>
        /\ ops # <<>>
        /\ IsPrefix(ops, StepCalls)
        /\ dev = Replay(pre, 0, SubSeq(ops, 1, Len(ops) - 1))
        /\ cmd \in {"wr", "orr", "bic"} =>
              LET k == IF cmd = "wr" THEN Len(ops) - 1 ELSE (Len(ops) - 1) \div 2
              IN  \A i \in 0 .. (Len(arg.word) - 1) :
                     Peek(dev, arg.address + 4 * i) =
                        IF i < k THEN WordWritten(i) ELSE Peek(pre, arg.address + 4 * i)
        /\ (cmd \in {"wrf", "asmf"} /\ ops[Len(ops)].k = "poke") =>
              /\ overlay_get(dev) = <<va, Len(arg.word)>>
              /\ ReadBlock(dev, arg.address, 4 * Len(arg.word))
                    = FlashContents(arg.address, Len(arg.word))

\* orr fails on the write-back of its second word, over RAM that held a word
C7_Witness ==
    /\ cmd = "orr"
    /\ err = "TransportError"
    /\ Len(arg.word) = 2
    /\ Len(ops) = 4
    /\ Peek(pre, WatchBase) = 1431655765
    /\ Peek(dev, WatchBase) = 1431787349

\* The bytes a write of n words at A covers
RangeAddrs(A, n) == A .. (A + 4 * n - 1)

\* A store to a lands somewhere: a is RAM, or the overlay is mapped over it
Writable(D, a) == InOverlay(D, a) \/ a \in RamAddrs

\* The pokes a write of W at A issues: word i at A + 4*i, ascending
WriteCalls(A, W) == [i \in 1 .. Len(W) |-> PokeOp(A + 4 * (i - 1), W[i])]

\* C10 as stated: after wr(a, words) has returned, for a range anywhere in the
\* target's memory, the words were poked at a + 4*i in ascending order and
\* reading the range gives back words.
C10_RoundTripAnywhere ==
    (cmd = "wr" /\ Returned
        /\ RangeAddrs(arg.address, Len(arg.word)) \subseteq (FlashAddrs \cup RamAddrs)) =>
        /\ ops = WriteCalls(arg.address, arg.word)
        /\ ReadBlock(dev, arg.address, 4 * Len(arg.word)) = WordsBytes(arg.word)

\* C10 amended: after wr(a, words) has returned, the words were poked at
\* a + 4*i in ascending order, and reading the range gives back words when
\* the range lies in writable memory: RAM, or flash the overlay is mapped over.
C10_RoundTripWritable ==
    (cmd = "wr" /\ Returned) =>
        /\ ops = WriteCalls(arg.address, arg.word)
        /\ (\A a \in RangeAddrs(arg.address, Len(arg.word)) : Writable(dev, a)) =>
              ReadBlock(dev, arg.address, 4 * Len(arg.word)) = WordsBytes(arg.word)

\* two different words written over flash that the overlay covers, and read back
C10_Witness ==
    /\ cmd = "wr"
    /\ Returned
    /\ arg.address = FlashBase
    /\ Len(arg.word) = 2
    /\ arg.word[1] # arg.word[2]
    /\ overlay_get(dev) = <<FlashBase, 2>>
    /\ ReadBlock(dev, FlashBase, 8) = WordsBytes(arg.word)
    /\ ReadBlock(dev, FlashBase, 8) # ReadBlock(pre, FlashBase, 8)

\* The change records due for the values read so far in the running cycle,
\* from the i-th watched address on: one for each address whose value differs
\* from the one read in the cycle before, none in the first cycle
RECURSIVE ChangesFrom(_)
ChangesFrom(i) ==
    IF i > Len(scan) THEN <<>>
    ELSE (IF last # <<>> /\ scan[i] # last[i]
          THEN << <<arg.address + i - 1, last[i], scan[i]>> >>
          ELSE <<>>) \o ChangesFrom(i + 1)

\* C8: in every scan cycle of watch each watched address is read once; the
\* first cycle emits no record; in each later cycle the records emitted are
\* exactly (address, value read in the cycle before, value read now) for the
\* addresses whose two values differ, and none for the others.
C8_WatchRecords ==
    cmd = "watch" =>
        /\ out = ChangesFrom(1)
        /\ Len(scan) <= arg.count
        /\ last # <<>> => Len(last) = arg.count
        /\ cycle = 0 => last = <<>>

\* baseline 0x00 at 0x2000 and at the next address; the target stores 0xFF at
\* 0x2000; the next cycle has read both and emitted the one record
C8_Witness ==
    /\ cmd = "watch"
    /\ arg.address = WatchBase
    /\ arg.count = 2
    /\ last = <<0, 0>>
    /\ scan = <<255, 0>>
    /\ out = << <<WatchBase, 0, 255>> >>

\* C9 (state part): watch and find issue nothing but reads, and while the
\* watch loop runs its next read is always possible: it has no end of its own.
C9_ReadOnlyState ==
    /\ cmd \in {"watch", "find"} =>
          \A i \in 1 .. Len(ops) : ops[i].k \in {"peek", "read"}
    /\ Watching => ENABLED WatchRead

\* C9 (step part): no step of watch or find changes the device; the watch loop
\* stops only by leaving nothing to do and the device, the calls issued and the
\* output as they were, with no error unless the transport failed; once it has
\* stopped no further read is issued.
C9_ReadOnlyStep ==
    /\ (cmd' \in {"watch", "find"} /\ host' # host) => dev' = dev
    /\ (Watching /\ ~Watching') =>
          /\ todo' = <<>>
          /\ err' \in {"none", "TransportError"}
          /\ UNCHANGED <<dev, ops, out, scan, snapshot>>
    /\ (cmd = "watch" /\ todo = <<>> /\ cmd' = "watch" /\ todo' = <<>>) =>
          UNCHANGED <<ops, scan, out, err>>

\* C9: watch and find only read, and an interrupt just stops the watch
C9_ReadOnly == []C9_ReadOnlyState /\ [][C9_ReadOnlyStep]_vars

\* a watch interrupted in the middle of a later cycle, after the target has
\* changed the memory it watches
C9_Witness ==
    /\ cmd = "watch"
    /\ todo = <<>>
    /\ err = "none"
    /\ arg.count = 2
    /\ cycle >= 1
    /\ Len(scan) = 1
    /\ dev # pre

\* The pokes of the per-word path of fill: the pattern at A + 4*i, ascending
FillPokes(A, w, n) == [i \in 1 .. n |-> PokeOp(A + 4 * (i - 1), w)]

\* Every byte outside the n words at A reads as it did when the command
\* started, and the overlay mapping is the same
OutsideUnchanged(A, n) ==
    /\ overlay_get(dev) = overlay_get(pre)
    /\ \A a \in (FlashAddrs \cup RamAddrs) \ RangeAddrs(A, n) :
          ReadByte(dev, a) = ReadByte(pre, a)

\* The n words at A all read as the word w
ReadsAs(D, A, n, w) == \A i \in 0 .. (n - 1) : Peek(D, A + 4 * i) = w

\* C11 as stated: after fill(a, n, pattern) has returned, for a range anywhere
\* in the target's memory and on either path, the n words at a read as pattern,
\* the device is as n pokes of pattern would have left it, and nothing outside
\* the n words has changed.
C11_FillAnywhere ==
    (cmd = "fill" /\ Returned
        /\ RangeAddrs(arg.address, arg.count) \subseteq (FlashAddrs \cup RamAddrs)) =>
        /\ ReadsAs(dev, arg.address, arg.count, arg.word[1])
        /\ dev = Replay(pre, 0, FillPokes(arg.address, arg.word[1], arg.count))
        /\ OutsideUnchanged(arg.address, arg.count)

\* C11 amended: after fill(a, n, pattern) has returned, on either path, the
\* device is as n pokes of pattern would have left it and nothing outside the
\* n words has changed; the n words read as pattern when the range lies in
\* writable memory: RAM, or flash the overlay is mapped over.
C11_FillWritable ==
    (cmd = "fill" /\ Returned) =>
        /\ (\A a \in RangeAddrs(arg.address, arg.count) : Writable(dev, a)) =>
              ReadsAs(dev, arg.address, arg.count, arg.word[1])
        /\ dev = Replay(pre, 0, FillPokes(arg.address, arg.word[1], arg.count))
        /\ OutsideUnchanged(arg.address, arg.count)

\* the bulk path: one fill call has set the second word of RAM, which an
\* earlier fill on the per-word path had set to another pattern, and the
\* first word still holds that other pattern
C11_Witness ==
    /\ cmd = "fill"
    /\ Returned
    /\ arg.address = WatchBase + 4
    /\ arg.count = 1
    /\ ops = <<FillOp(WatchBase + 4, 85, 4)>>
    /\ Peek(pre, WatchBase + 4) = 16909060
    /\ Peek(dev, WatchBase + 4) = 1431655765
    /\ Peek(dev, WatchBase) = 16909060

\* bic has returned, having followed an orr with the same address and masks
OrrThenBic ==
    /\ cmd = "bic"
    /\ Returned
    /\ orig.address = arg.address
    /\ orig.word = arg.word

\* C12 as stated: after orr(a, m) followed by bic(a, m), each word read at a
\* is the word that was there before the orr.
C12_OrrBicRestores ==
    OrrThenBic =>
        \A i \in 0 .. (Len(arg.word) - 1) :
            Peek(dev, arg.address + 4 * i) = Peek(orig.dev, arg.address + 4 * i)

\* C12 amended: after orr(a, m) followed by bic(a, m), each word in RAM at a
\* is the word v that was there before the orr with the bits of m cleared,
\* v & ~m: the bits outside m are as they were, and v itself is back exactly
\* when it had no bit of m set.  (A word in flash is not written by either.)
C12_OrrBicClearsMask ==
    OrrThenBic =>
        \A i \in 0 .. (Len(arg.word) - 1) :
            LET a == arg.address + 4 * i
                v == Peek(orig.dev, a)
                m == arg.word[i + 1]
            IN  /\ a \in RamAddrs => Peek(dev, a) = BitBic(v, m)
                /\ a \in FlashAddrs => Peek(dev, a) = v
                /\ (Peek(dev, a) = v) <=> (a \in FlashAddrs \/ BitOr(v, m) = v + m)

\* orr and bic with the mask 0x01020304 over the word 0x55555555, which has
\* three bits of the mask set: the word left is 0x54555451
C12_Witness ==
    /\ OrrThenBic
    /\ arg.address = WatchBase
    /\ arg.word = <<16909060>>
    /\ Peek(orig.dev, WatchBase) = 1431655765
    /\ Peek(pre, WatchBase) = 1431787349
    /\ Peek(dev, WatchBase) = 1414878289

\* The pattern lies at x, whole within the size bytes from a
MatchAt(D, a, size, pattern, x) ==
    /\ a <= x
    /\ x + Len(pattern) <= a + size
    /\ ReadBlock(D, x, Len(pattern)) = pattern

\* C13: find(a, size, pattern), once returned, has read the size bytes from a
\* and nothing else, and reports x if and only if a <= x, x + len(pattern) <=
\* a + size and the bytes at x are the pattern: at every byte alignment,
\* overlapping matches included, each once and in ascending order.
C13_FindMatches ==
    (cmd = "find" /\ Returned) =>
        /\ ops = <<ReadOp(arg.address, arg.count)>>
        /\ \A x \in (WatchBase - 1) .. (WatchBase + 4 * MaxWords + 1) :
              (\E i \in 1 .. Len(out) : out[i] = x)
                 <=> MatchAt(dev, arg.address, arg.count, arg.word, x)
        /\ \A i \in 1 .. (Len(out) - 1) : out[i] < out[i + 1]

\* 55 55 searched in the 3 bytes 55 55 55 at an odd address, with 55 also in
\* the bytes next to the block on both sides: the two overlapping matches,
\* and none that reaches outside the block
C13_Witness ==
    /\ cmd = "find"
    /\ Returned
    /\ arg.address = WatchBase + 1
    /\ arg.count = 3
    /\ arg.word = <<85, 85>>
    /\ ReadBlock(dev, WatchBase, 5) = <<85, 85, 85, 85, 85>>
    /\ out = <<WatchBase + 1, WatchBase + 2>>

\* The bytes b, followed by zeros up to the length of a CDB
ZeroFilled(b) == b \o [i \in 1 .. (CdbLen - Len(b)) |-> 0]

\* The bytes a command puts in its CDB, and the length it asks to read
CdbOf ==
    CASE cmd = "sc_read" ->
            [len |-> 2048 * arg.count,
             bytes |-> <<168, 0,
                         (arg.address \div 16777216) % 256, (arg.address \div 65536) % 256,
                         (arg.address \div 256) % 256, arg.address % 256,
                         (arg.count \div 16777216) % 256, (arg.count \div 65536) % 256,
                         (arg.count \div 256) % 256, arg.count % 256>>]
      [] OTHER -> [len |-> arg.count, bytes |-> arg.word]

C15_SetCountPositive ==
    \A i \in 1 .. Len(ops) : ops[i].k = "overlay_set" => ops[i].v > 0

\* wrf without words has called overlay_set(d, va, 0)
C15_Witness ==
    /\ cmd = "wrf"
    /\ arg.word = <<>>
    /\ ops = <<SetOp(va, 0)>>
    /\ pre.ovl = <<FlashBase, 2>>

\* The target has just been called, by this step
Called == Len(ops') = Len(ops) + 1 /\ ops'[Len(ops')].k = "call"

\* C16 (state part): r0 and r1 are both unset, before the first evaluation
\* that succeeds, or both set.
C16_RegsState == (r0 = None) <=> (r1 = None)

\* C16 (step part): the r0 that ea hands to the target is the module's r0, 0
\* while it is unset; the step in which the call returns replaces r0 and r1
\* by the two values the target returned for that input; every other step,
\* among them the one in which ea ends with an error, leaves both as they were.
C16_RegsStep ==
    /\ (cmd = "ea" /\ Called) =>
          ops'[Len(ops')].v = (IF r0 = None THEN 0 ELSE r0)
    /\ IF cmd = "ea" /\ Called /\ err' = "none"
       THEN <<r0', r1'>> = evalasm_table(arg.src, IF r0 = None THEN 0 ELSE r0).regs
       ELSE UNCHANGED <<r0, r1>>

\* C16: the register pair persists from one evaluation to the next
C16_Regs == []C16_RegsState /\ [][C16_RegsStep]_vars

\* ea has been called with the r0 = 1 of the evaluation before it, and has
\* returned r0 = 2 and r1 = 1
C16_Witness ==
    /\ cmd = "ea"
    /\ Returned
    /\ ops[Len(ops)] = CallOp(pad + HandlerOffset, 1)
    /\ r0 = 2
    /\ r1 = 1

\* The flash addresses that do not read as the flash under them
Patched(D) == {a \in FlashAddrs : ReadByte(D, a) # FlashByte(a)}

\* C17: in every state the flash addresses that do not read as the flash under
\* them lie in the one range the overlay is mapped to; so once wrf or hook has
\* patched a range, every flash address outside that range reads as flash
\* again, whatever an earlier wrf or hook had patched there.
C17_PatchesDoNotAccumulate ==
    /\ Patched(dev) \subseteq RangeAddrs(overlay_get(dev)[1], overlay_get(dev)[2])
    /\ (cmd \in {"wrf", "hook"} /\ Returned /\ Len(arg.word) > 0) =>
          /\ overlay_get(dev) = <<arg.address, Len(arg.word)>>
          /\ Patched(dev) \subseteq RangeAddrs(arg.address, Len(arg.word))

\* wrf had patched the first word of flash; hook has then put its redirect on
\* the two words after it, and the first word reads as flash again
C17_Witness ==
    /\ cmd = "hook"
    /\ Returned
    /\ arg.address = FlashBase + 4
    /\ pre.ovl = <<FlashBase, 1>>
    /\ ReadBlock(pre, FlashBase, 4) = WordBytes(1431655765)
    /\ ReadBlock(dev, FlashBase, 4) = FlashContents(FlashBase, 1)
    /\ ReadBlock(dev, FlashBase, 4) # ReadBlock(pre, FlashBase, 4)

\* A redirect to the default handler address can be read at a hooked address
Hooked(D) ==
    \E h \in PatchAddrs : ReadBlock(D, h, 8) = WordsBytes(redirect(pad + HandlerOffset))

\* The bytes of the scratch pad that hold a handler compiled by hook
HandlerRange(D) ==
    UNION { LET r == compile_handler(pad + HandlerOffset,
                                     IF c = "" THEN "default_hook(regs)" ELSE c)
            IN  IF r.ok /\ ReadBlock(D, pad + HandlerOffset, Len(r.data)) = r.data
                THEN (pad + HandlerOffset) .. (pad + HandlerOffset + Len(r.data) - 1)
                ELSE {}
            : c \in HookBodies }

\* C18 as stated: while the redirect of a hook is mapped, no ec or ea run at
\* its default address writes to the bytes of the scratch pad that hold the
\* hook's handler.
C18_HandlerIntact ==
    (cmd \in {"ec", "ea"} /\ Hooked(pre)) =>
        \A i \in 1 .. Len(ops) :
            ops[i].k = "poke" => (ops[i].a .. (ops[i].a + 3)) \cap HandlerRange(pre) = {}

\* a hook with the default handler was in place; ea has run, and the redirect,
\* still mapped, now leads to the code that ea wrote over the handler
C18_Witness ==
    /\ cmd = "ea"
    /\ Returned
    /\ Hooked(dev)
    /\ HandlerRange(pre) = (pad + HandlerOffset) .. (pad + HandlerOffset + 7)
    /\ HandlerRange(dev) = {}
    /\ ReadBlock(dev, pad + HandlerOffset, 8) = evalasm_table(arg.src, 0).data

\* The commands that are to leave the overlay mapping as it is
Framed == {"rd", "rdw", "wr", "orr", "bic", "fill", "find", "watch", "reset"}

\* C19 (state part): while and after rd, rdw, wr, orr, bic, fill, find, watch,
\* ovl without an address or reset runs, the overlay mapping is the one the
\* command found, and none of them has issued an overlay_set.
C19_FrameState ==
    (cmd \in Framed \/ (cmd = "ovl" /\ arg.address = None)) =>
        /\ overlay_get(dev) = overlay_get(pre)
        /\ \A i \in 1 .. Len(ops) : ops[i].k # "overlay_set"

\* C19 (step part): the overlay mapping changes only in a step of ovl with an
\* address, wrf, asmf or hook; and no step of reset, its start included,
\* changes the register pair, the definition table or the device.
C19_FrameStep ==
    /\ overlay_get(dev)' # overlay_get(dev) =>
          /\ cmd' \in {"ovl", "wrf", "asmf", "hook"}
          /\ cmd' = "ovl" => arg'.address # None
    /\ cmd' = "reset" => UNCHANGED <<r0, r1, includes, dev>>

\* C19: the overlay mapping is moved by ovl, wrf, asmf and hook alone
C19_Frame == []C19_FrameState /\ [][C19_FrameStep]_vars

\* reset has returned in a session that has a hook mapped, a definition
\* stored and the register pair set
C19_Witness ==
    /\ cmd = "reset"
    /\ Returned
    /\ ops = <<ResetOp>>
    /\ overlay_get(dev) = <<FlashBase, 2>>
    /\ r0 = 1
    /\ r1 = 0
    /\ <<"int x ", "int x = 2;">> \in includes

====
